---- MODULE Spec2Model ----
(***************************************************************************)
(* Model of embypy's root aggregate (class Emby, src/embypy/emby.py): the  *)
(* collection cache `extras` with its cached and forced accessors, the     *)
(* global refresh `update`, the query methods info, search, latest, nextUp *)
(* and create_playlist, and the calling convention of the async_func       *)
(* wrapper; and of the field and relation accessors of Episode             *)
(* (src/embypy/objects/videos.py).  Every `async def` of Emby is a         *)
(* coroutine run by a cooperative scheduler: a call executes atomically up *)
(* to its next `await` on the transport, so each action below is one such  *)
(* segment.                                                                *)
(***************************************************************************)
EXTENDS Integers, Sequences, FiniteSets, TLC

VARIABLES
    extras,   \* self.extras of the root: collection key -> cached list
    tasks,    \* the coroutines in flight, one slot per concurrent caller
    fetched,  \* history: per key, the last forced fetch completed, or that update dropped it
    used,     \* the collections the client program reads
    calls,    \* number of calls started so far
    episode,  \* an Episode entity the client holds (objects/videos.py)
    sched     \* whether the client program runs inside a running event loop

vars == <<extras, tasks, fetched, used, calls, episode, sched>>

\* What no method of the root touches.
client == <<used, episode, sched>>

(* ------------------------------ bounds --------------------------------- *)

\* Longest sequence of records the server answers a query with.
MaxLen == 1

\* Number of calls started in one run.
MaxCalls == 3

\* Longest list of search hints, and of items or identifiers a caller passes.
MaxHits == 3
MaxItems == 2

(* --------------------------- python values ----------------------------- *)

PyNone == [kind |-> "None", val |-> <<>>]

PyList(s) == [kind |-> "list", val |-> s]

\* A string is the sequence of its pieces; the empty string has none.
PyStr(s) == [kind |-> "str", val |-> IF s = "" THEN <<>> ELSE <<s>>]

\* A raw JSON record.
PyDict(rec) == [kind |-> "dict", val |-> <<rec>>]

\* A resolved EmbyObject.
PyObj(e) == [kind |-> "object", val |-> <<e>>]

\* bool(v): None, the empty list and the empty string are false.
Truthy(v) ==
    CASE v.kind = "None" -> FALSE
      [] v.kind = "list" -> v.val # <<>>
      [] v.kind = "str"  -> v.val # <<>>
      [] OTHER           -> TRUE

\* sep.join(parts)
RECURSIVE Join(_, _)
Join(sep, parts) ==
    IF parts = <<>> THEN <<>>
    ELSE IF Len(parts) = 1 THEN <<parts[1]>>
    ELSE <<parts[1], sep>> \o Join(sep, Tail(parts))

\* d.get(k, default) on a dict modelled as a function over its keys.
DictGet(d, k, default) == IF k \in DOMAIN d THEN d[k] ELSE default

EmptyDict == [k \in {} |-> PyNone]

\* d[k] = v
DictSet(d, k, v) == [x \in DOMAIN d \cup {k} |-> IF x = k THEN v ELSE d[x]]

NoError == [type |-> "None", args |-> <<>>]

Raised(type, args) == [type |-> type, args |-> args]

(* ------------------------------ server --------------------------------- *)

SeriesA == [Id |-> "a", Type |-> "Series"]
MovieB  == [Id |-> "b", Type |-> "Movie"]
MovieC  == [Id |-> "c", Type |-> "Movie"]
PersonD == [Id |-> "d", Type |-> "Person"]

\* Raw records the server holds.
Catalog == {SeriesA, MovieB, MovieC, PersonD}

\* The records collection queries are answered from.
Library == {SeriesA, MovieB}

RECURSIVE SeqsUpTo(_, _)
SeqsUpTo(S, n) ==
    IF n = 0 THEN { <<>> }
    ELSE LET shorter == SeqsUpTo(S, n - 1)
         IN  shorter \cup { Append(s, x) : s \in { q \in shorter : Len(q) = n - 1 }, x \in S }

\* What a collection query can be answered with.
Responses == SeqsUpTo(Library, MaxLen)

(* ----------------------------- resolver -------------------------------- *)

\* EmbyObject built from a raw record: typed accessors over the record.
Entity(rec) == [id |-> rec.Id, type |-> rec.Type, object_dict |-> rec]

\* process() on a sequence of raw records: one entity per record, in order.
ProcessRecords(recs) == [i \in 1..Len(recs) |-> Entity(recs[i])]

\* Whether the server holds a record with this identifier.
Exists(id) == \E rec \in Catalog : rec.Id = id

RecordOf(id) == CHOOSE rec \in Catalog : rec.Id = id

\* process() on one item: an identifier is fetched, a record is built
\* directly, an object is handed back as it is.
ResolveOne(item) ==
    CASE item.kind = "str"  -> PyObj(Entity(RecordOf(item.val[1])))
      [] item.kind = "dict" -> PyObj(Entity(item.val[1]))
      [] OTHER              -> item

ItemsOf(v) == IF v.kind = "list" THEN v.val ELSE <<v>>

\* The identifier fetches process() makes for v, in input order.
ProcessFetches(v) ==
    LET ids == SelectSeq(ItemsOf(v), LAMBDA x : x.kind = "str")
    IN  [i \in 1..Len(ids) |-> [method |-> "GET", path |-> "fetchRaw", id |-> ids[i]]]

\* No identifier of v is unknown to the server.
Resolvable(v) ==
    \A i \in 1..Len(ItemsOf(v)) :
        ItemsOf(v)[i].kind = "str" => Exists(ItemsOf(v)[i].val[1])

\* process(v) when every fetch decodes: a list gives a list of the same
\* length and order, anything else a single object.
ProcessValue(v) ==
    IF v.kind = "list"
    THEN PyList([i \in 1..Len(v.val) |-> ResolveOne(v.val[i]).val[1]])
    ELSE ResolveOne(v)

\* What the awaited transport call can end with besides an answer.
ProcessFaults(v) ==
    (IF Resolvable(v) THEN {} ELSE {"JSONDecodeError"}) \cup
    (IF ProcessFetches(v) = <<>> THEN {} ELSE {"TransportError"})

(* --------------------------- collection keys --------------------------- *)

\* In the order the accessors are defined.
KeyOrder == <<"albums", "songs", "playlists", "artists", "movies",
              "series", "episodes", "devices", "users">>

Keys == {KeyOrder[i] : i \in DOMAIN KeyOrder}

\* A client program reads two collections: any one and the one defined after it.
KeyPairs ==
    {{KeyOrder[i], KeyOrder[(i % Len(KeyOrder)) + 1]} : i \in DOMAIN KeyOrder}

\* The default each cached accessor hands to extras.get.
GetDefault(K) ==
    IF K \in {"albums", "songs", "playlists"} THEN PyNone ELSE PyList(<<>>)

ItemTypeOf(K) ==
    CASE K = "albums"    -> "MusicAlbum"
      [] K = "songs"     -> "Audio"
      [] K = "playlists" -> "Playlist"
      [] K = "artists"   -> "MusicArtist"
      [] K = "movies"    -> "Movie"
      [] K = "series"    -> "Series"
      [] K = "episodes"  -> "Episode"
      [] OTHER           -> ""

FieldsOf(K) ==
    CASE K \in {"albums", "songs"} -> "Path,ParentId,Overview,Genres,Tags,Artists"
      [] K = "playlists"           -> "Path,ParentId,Overview"
      [] K = "movies"              -> "Path,ParentId,Overview,Genres,Tags,ProviderIds"
      [] OTHER                     -> "Path,ParentId,Overview,Genres,Tags"

\* The getJson call of the forced accessor of K.
ForceRequest(K) ==
    IF K = "devices" THEN [method |-> "GET", path |-> "/Devices", params |-> <<>>]
    ELSE IF K = "users" THEN [method |-> "GET", path |-> "/Users", params |-> <<>>]
    ELSE [method |-> "GET", path |-> "/Users/{UserId}/Items",
          params |-> [format |-> "json", Recursive |-> "true",
                      IncludeItemTypes |-> ItemTypeOf(K), Fields |-> FieldsOf(K),
                      SortBy |-> "SortName", SortOrder |-> "Ascending"]]

(* ------------------------------- tasks --------------------------------- *)

\* Slots for concurrently running coroutines, in the order they are taken.
Tasks == <<"t1", "t2">>

TaskIds == {Tasks[i] : i \in DOMAIN Tasks}

InFlight(t) == tasks[t].pc \notin {"idle", "done"}

Idle ==
    [op |-> "none", key |-> "", pc |-> "idle", ret |-> PyNone, err |-> NoError,
     arg |-> PyNone, reqs |-> <<>>, resp |-> <<>>, fault |-> "None",
     prev |-> PyNone, made |-> {}, called |-> {}, mode |-> "none",
     overtaken |-> FALSE]

\* The client holds no Episode.
NoEpisode ==
    [object_dict |-> EmptyDict, extras |-> EmptyDict, invoked |-> <<>>,
     last |-> "none", val |-> PyNone]

Init ==
    /\ extras = EmptyDict
    /\ tasks = [t \in TaskIds |-> Idle]
    /\ fetched = EmptyDict
    /\ used \in KeyPairs
    /\ calls = 0
    /\ episode = NoEpisode
    /\ sched = TRUE

\* A new call runs in the first slot that holds no coroutine in flight; the
\* result of a finished call stays in its slot until the slot is taken again.
CanCall(t) ==
    /\ calls < MaxCalls
    /\ \E i \in DOMAIN Tasks :
         /\ Tasks[i] = t
         /\ ~InFlight(t)
         /\ \A j \in 1..(i - 1) : InFlight(Tasks[j])

\* The body of a call starts either with the call itself (the wrapper runs
\* it, or the caller awaits it on the spot) or when its coroutine object,
\* handed out earlier, is awaited.
Starts(t, op, K, arg) ==
    \/ /\ CanCall(t)
       /\ calls' = calls + 1
    \/ /\ tasks[t].pc = "handle"
       /\ tasks[t].op = op
       /\ tasks[t].key = K
       /\ tasks[t].arg = arg
       /\ calls' = calls

Begin(t, op, K) ==
    [Idle EXCEPT !.op = op, !.key = K,
                 !.mode = IF tasks[t].pc = "handle" THEN "awaited" ELSE "called"]

(* ---------------------- cached / forced accessors ---------------------- *)

\* Variant: the lookup key pasted from the first accessor.
CachedLookup_Pasted(ex, K) == DictGet(ex, KeyOrder[1], GetDefault(K))

\* The left operand of `or` in a cached accessor: self.extras.get(K[, []]).
CachedLookup(ex, K) == DictGet(ex, K, GetDefault(K))

\* Variant: a membership test in place of the truth test.
CachedHit_Present(ex, K) == K \in DOMAIN ex

\* Whether `or` keeps its left operand.
CachedHit(ex, K) == Truthy(CachedLookup(ex, K))

\* Variant: the fetched items are appended to the entry.
ForceStore_Merge(ex, K, items) ==
    DictSet(ex, K, PyList(DictGet(ex, K, PyList(<<>>)).val \o items))

\* Variant: the cache is rebound to a dict that holds the fetched key alone.
ForceStore_Rebind(ex, K, items) == [k \in {K} |-> PyList(items)]

\* self.extras[K] = items
ForceStore(ex, K, items) == DictSet(ex, K, PyList(items))

\* <K>_force up to its first await: the query is sent.
ForceSend(t, op, K) ==
    [Begin(t, op, K) EXCEPT !.pc = "fetch", !.reqs = <<ForceRequest(K)>>]

\* Emby.<K>: return self.extras.get(K) or await self.<K>_force
CachedCall(t, K) ==
    /\ Starts(t, "cached", K, PyNone)
    /\ tasks' = [tasks EXCEPT ![t] =
                IF CachedHit(extras, K)
                THEN [Begin(t, "cached", K) EXCEPT
                        !.pc = "done", !.ret = CachedLookup(extras, K)]
                ELSE ForceSend(t, "cached", K)]
    /\ UNCHANGED <<extras, fetched, client>>

\* Emby.<K>_force, first segment.
ForcedCall(t, K) ==
    /\ Starts(t, "forced", K, PyNone)
    /\ tasks' = [tasks EXCEPT ![t] = ForceSend(t, "forced", K)]
    /\ UNCHANGED <<extras, fetched, client>>

\* Variant: a fetch that an update has overtaken returns its list without
\* storing it.
ForceReturn_Guarded(t) ==
    /\ tasks[t].pc = "fetch"
    /\ tasks[t].op \in {"cached", "forced"}
    /\ \E resp \in Responses :
         LET K     == tasks[t].key
             items == ProcessRecords(resp)
         IN  /\ extras' = IF tasks[t].overtaken THEN extras
                          ELSE ForceStore(extras, K, items)
             /\ fetched' = IF tasks[t].overtaken THEN fetched
                           ELSE DictSet(fetched, K, PyList(items))
             /\ tasks' = [tasks EXCEPT ![t].pc = "done",
                                       ![t].resp = resp,
                                       ![t].ret = PyList(items),
                                       ![t].prev = DictGet(extras, K, PyNone)]
    /\ UNCHANGED <<client, calls>>

\* <K>_force after getJson answered: process, store, return.
ForceReturn(t) ==
    /\ tasks[t].pc = "fetch"
    /\ tasks[t].op \in {"cached", "forced"}
    /\ \E resp \in Responses :
         LET K     == tasks[t].key
             items == ProcessRecords(resp)
         IN  /\ extras' = ForceStore(extras, K, items)
             /\ fetched' = DictSet(fetched, K, PyList(items))
             /\ tasks' = [tasks EXCEPT ![t].pc = "done",
                                       ![t].resp = resp,
                                       ![t].ret = PyList(items),
                                       ![t].prev = DictGet(extras, K, PyNone)]
    /\ UNCHANGED <<client, calls>>

\* Variant: a failed fetch takes the entry of its key out of the cache.
ForceFail_Drops(t) ==
    /\ tasks[t].pc = "fetch"
    /\ tasks[t].op \in {"cached", "forced"}
    /\ \E e \in {"TransportError", "JSONDecodeError"} :
         tasks' = [tasks EXCEPT ![t].pc = "done", ![t].fault = e,
                                   ![t].err = Raised(e, <<>>)]
    /\ extras' = [k \in DOMAIN extras \ {tasks[t].key} |-> extras[k]]
    /\ UNCHANGED <<fetched, client, calls>>

\* getJson or process raised: the exception leaves <K>_force before the store.
ForceFail(t) ==
    /\ tasks[t].pc = "fetch"
    /\ tasks[t].op \in {"cached", "forced"}
    /\ \E e \in {"TransportError", "JSONDecodeError"} :
         tasks' = [tasks EXCEPT ![t].pc = "done", ![t].fault = e,
                                   ![t].err = Raised(e, <<>>)]
    /\ UNCHANGED <<extras, fetched, client, calls>>

(* ------------------------------- update -------------------------------- *)

\* keys = self.extras.keys(): a view of the dict that was bound before the reset.
UpdateKeys(ex) == DOMAIN ex

\* Variant: the reset is left out.
UpdateReset_Keep(ex) == ex

\* self.extras = {}
UpdateReset(ex) == EmptyDict

\* getattr(self, key, None) inside the running coroutine: the property getter
\* goes through the async_func wrapper, which hands back a coroutine object.
AccessorHandle(K) == [kind |-> "coroutine", key |-> K]

\* callable(func)
Callable(v) == v.kind = "function"

\* History mark of a key whose entry an update removed.
Dropped == [kind |-> "dropped", val |-> <<>>]

\* Emby.update: no await in its body, so it is one segment.  History: every
\* call waiting for the server at that moment is marked as overtaken.
Update(t) ==
    /\ Starts(t, "update", "", PyNone)
    /\ LET keys == UpdateKeys(extras)
       IN  /\ extras' = UpdateReset(extras)
           /\ tasks' = [u \in TaskIds |->
                 IF u = t
                 THEN [Begin(t, "update", "") EXCEPT
                         !.pc = "done",
                         !.made = keys,
                         !.called = {k \in keys : Callable(AccessorHandle(k))}]
                 ELSE IF tasks[u].pc = "fetch"
                      THEN [tasks[u] EXCEPT !.overtaken = TRUE]
                      ELSE tasks[u]]
    /\ fetched' = [k \in DOMAIN fetched |-> Dropped]
    /\ UNCHANGED client

(* -------------------------------- info --------------------------------- *)

\* Variant: the identifier is left out of the exception.
InfoError_NoId(obj_id, fault) ==
    IF fault = "JSONDecodeError"
    THEN Raised("LookupError", <<PyStr("Error object with that id does not exist")>>)
    ELSE Raised(fault, <<>>)

\* The exception info() leaves with when process() raised `fault`.
InfoError(obj_id, fault) ==
    IF fault = "JSONDecodeError"
    THEN Raised("LookupError", <<PyStr("Error object with that id does not exist"), obj_id>>)
    ELSE Raised(fault, <<>>)

\* if obj_id: ... else: ...
InfoResolves(obj_id) == Truthy(obj_id)

StatusRequest == [method |-> "GET", path |-> "connector.info"]

\* What the server answers connector.info() with.
SystemStatus == PyDict([ServerName |-> "emby", Version |-> "3"])

\* Emby.info up to its await.
InfoCall(t, obj_id) ==
    /\ Starts(t, "info", "", obj_id)
    /\ tasks' = [tasks EXCEPT ![t] =
         IF InfoResolves(obj_id)
         THEN [Begin(t, "info", "") EXCEPT
                 !.arg = obj_id, !.pc = "resolve", !.reqs = ProcessFetches(obj_id)]
         ELSE [Begin(t, "info", "") EXCEPT
                 !.arg = obj_id, !.pc = "status", !.reqs = <<StatusRequest>>]]
    /\ UNCHANGED <<extras, fetched, client>>

\* return await self.process(obj_id), or the except clause.
InfoResolved(t) ==
    /\ tasks[t].pc = "resolve"
    /\ tasks[t].op = "info"
    /\ \/ /\ Resolvable(tasks[t].arg)
          /\ tasks' = [tasks EXCEPT ![t].pc = "done",
                                    ![t].ret = ProcessValue(tasks[t].arg)]
       \/ \E f \in ProcessFaults(tasks[t].arg) :
             tasks' = [tasks EXCEPT ![t].pc = "done", ![t].fault = f,
                                    ![t].err = InfoError(tasks[t].arg, f)]
    /\ UNCHANGED <<extras, fetched, client, calls>>

\* return await self.connector.info()
InfoStatus(t) ==
    /\ tasks[t].pc = "status"
    /\ \/ tasks' = [tasks EXCEPT ![t].pc = "done", ![t].ret = SystemStatus]
       \/ tasks' = [tasks EXCEPT ![t].pc = "done", ![t].fault = "TransportError",
                                 ![t].err = Raised("TransportError", <<>>)]
    /\ UNCHANGED <<extras, fetched, client, calls>>

(* ------------------------------- search -------------------------------- *)

\* sort_map is a dict in insertion order: a sequence of <<type, priority>>.
SortMapKeys(sm) == [i \in 1..Len(sm) |-> sm[i][1]]

\* sort_map.get(tag, default)
SortMapGet(sm, tag, default) ==
    IF \E i \in 1..Len(sm) : sm[i][1] = tag
    THEN sm[CHOOSE i \in 1..Len(sm) : sm[i][1] = tag][2]
    ELSE default

\* key=lambda x: sort_map.get(x.type, m_size), with m_size = len(sort_map)
SortKey(sm, x) == SortMapGet(sm, x.type, Len(sm))

\* Place x behind the last element whose key is not greater than its own.
RECURSIVE InsertSorted(_, _, _)
InsertSorted(sm, sorted, x) ==
    IF sorted = <<>> THEN <<x>>
    ELSE IF SortKey(sm, sorted[Len(sorted)]) <= SortKey(sm, x)
         THEN Append(sorted, x)
         ELSE Append(InsertSorted(sm, SubSeq(sorted, 1, Len(sorted) - 1), x),
                     sorted[Len(sorted)])

\* sorted(items, key=...): python's sort is stable.
RECURSIVE SortedItems(_, _)
SortedItems(sm, items) ==
    IF items = <<>> THEN <<>>
    ELSE InsertSorted(sm, SortedItems(sm, SubSeq(items, 1, Len(items) - 1)),
                      items[Len(items)])

\* Variant: the type filter is sent whether or not strict_sort is set.
SearchParams_Always(query, sm, strict) ==
    [searchTerm |-> PyStr(query),
     IncludeItemTypes |-> [kind |-> "str", val |-> Join(",", SortMapKeys(sm))]]

\* search_params; `remote` is an option of the connector, not a query parameter.
SearchParams(query, sm, strict) ==
    IF strict
    THEN [searchTerm |-> PyStr(query),
          IncludeItemTypes |-> [kind |-> "str", val |-> Join(",", SortMapKeys(sm))]]
    ELSE [searchTerm |-> PyStr(query)]

SearchRequest(query, sm, strict) ==
    [method |-> "GET", path |-> "/Search/Hints/", remote |-> FALSE,
     params |-> SearchParams(query, sm, strict)]

DefaultSortMap ==
    << <<"BoxSet", 0>>, <<"Series", 1>>, <<"Movie", 2>>, <<"Audio", 3>>, <<"Person", 4>> >>

\* The sort maps callers pass.
SortMaps ==
    { DefaultSortMap,
      << <<"Movie", 0>>, <<"Series", 1>> >>,
      << <<"Series", 0>>, <<"Movie", 0>> >>,
      << <<"Movie", 0>> >>,
      << <<"Movie", 5>> >>,
      << >> }

\* Emby.search up to the await of getJson.
SearchCall(t, query, sm, strict) ==
    /\ Starts(t, "search", "", [query |-> query, sort_map |-> sm, strict_sort |-> strict])
    /\ tasks' = [tasks EXCEPT ![t] =
         [Begin(t, "search", "") EXCEPT
            !.arg = [query |-> query, sort_map |-> sm, strict_sort |-> strict],
            !.pc = "fetch",
            !.reqs = <<SearchRequest(query, sm, strict)>>]]
    /\ UNCHANGED <<extras, fetched, client>>

\* The hints arrive: process, sort, return.
SearchReturn(t) ==
    /\ tasks[t].pc = "fetch"
    /\ tasks[t].op = "search"
    /\ \E hints \in SeqsUpTo(Catalog, MaxHits) :
         tasks' = [tasks EXCEPT
            ![t].pc = "done",
            ![t].resp = hints,
            ![t].ret = PyList(SortedItems(tasks[t].arg.sort_map, ProcessRecords(hints)))]
    /\ UNCHANGED <<extras, fetched, client, calls>>

SearchFail(t) ==
    /\ tasks[t].pc = "fetch"
    /\ tasks[t].op = "search"
    /\ \E e \in {"TransportError", "JSONDecodeError"} :
         tasks' = [tasks EXCEPT ![t].pc = "done", ![t].fault = e,
                                ![t].err = Raised(e, <<>>)]
    /\ UNCHANGED <<extras, fetched, client, calls>>

(* --------------------------- create_playlist --------------------------- *)

\* ids = [i.id for i in resolved]
IdsOf(resolved) == [i \in 1..Len(resolved) |-> resolved[i].id]

\* Variant: Ids is set also when there are no ids.
PlaylistData_AlwaysIds(name, ids) ==
    [Name |-> PyStr(name), Ids |-> [kind |-> "str", val |-> Join(",", ids)]]

\* data = {'Name': name}; if ids: data['Ids'] = ','.join(ids)
PlaylistData(name, ids) ==
    IF ids # <<>>
    THEN [Name |-> PyStr(name), Ids |-> [kind |-> "str", val |-> Join(",", ids)]]
    ELSE [Name |-> PyStr(name)]

PlaylistRequest(name, ids) ==
    [method |-> "POST", path |-> "/Playlists", pass_uid |-> TRUE, remote |-> FALSE,
     data |-> PlaylistData(name, ids)]

\* Emby.create_playlist up to the await of process(songs).
PlaylistCall(t, name, songs) ==
    /\ Starts(t, "create_playlist", "", [name |-> name, songs |-> PyList(songs)])
    /\ tasks' = [tasks EXCEPT ![t] =
         [Begin(t, "create_playlist", "") EXCEPT
            !.arg = [name |-> name, songs |-> PyList(songs)],
            !.pc = "resolve",
            !.reqs = ProcessFetches(PyList(songs))]]
    /\ UNCHANGED <<extras, fetched, client>>

\* process(songs) returned: the create request is posted.
PlaylistResolved(t) ==
    /\ tasks[t].pc = "resolve"
    /\ tasks[t].op = "create_playlist"
    /\ Resolvable(tasks[t].arg.songs)
    /\ LET resolved == ProcessValue(tasks[t].arg.songs).val
       IN  tasks' = [tasks EXCEPT
              ![t].pc = "post",
              ![t].reqs = Append(tasks[t].reqs,
                                 PlaylistRequest(tasks[t].arg.name, IdsOf(resolved)))]
    /\ UNCHANGED <<extras, fetched, client, calls>>

\* process(songs) raised: the exception leaves create_playlist.
PlaylistResolveFail(t) ==
    /\ tasks[t].pc = "resolve"
    /\ tasks[t].op = "create_playlist"
    /\ \E f \in ProcessFaults(tasks[t].arg.songs) :
         tasks' = [tasks EXCEPT ![t].pc = "done", ![t].fault = f,
                                ![t].err = Raised(f, <<>>)]
    /\ UNCHANGED <<extras, fetched, client, calls>>

\* connector.post returned (its answer is dropped) or raised.
PlaylistPosted(t) ==
    /\ tasks[t].pc = "post"
    /\ \/ tasks' = [tasks EXCEPT ![t].pc = "done"]
       \/ tasks' = [tasks EXCEPT ![t].pc = "done", ![t].fault = "TransportError",
                                 ![t].err = Raised("TransportError", <<>>)]
    /\ UNCHANGED <<extras, fetched, client, calls>>

(* --------------------------- latest / nextUp --------------------------- *)

\* getJson of latest: userId, itemTypes and groupItems go to the transport.
LatestRequest(userId, itemTypes, groupItems) ==
    [method |-> "GET", path |-> "/Users/{UserId}/Items/Latest", remote |-> FALSE,
     params |-> [userId |-> userId, IncludeItemTypes |-> PyStr(itemTypes),
                 GroupItems |-> groupItems]]

\* getJson of nextUp.
NextUpRequest(userId) ==
    [method |-> "GET", path |-> "/Shows/NextUp", pass_uid |-> TRUE, remote |-> FALSE,
     params |-> [userId |-> userId]]

\* Emby.latest up to the await of getJson.
LatestCall(t, userId, itemTypes, groupItems) ==
    /\ Starts(t, "latest", "", [userId |-> userId, itemTypes |-> itemTypes,
                                groupItems |-> groupItems])
    /\ tasks' = [tasks EXCEPT ![t] =
         [Begin(t, "latest", "") EXCEPT
            !.arg = [userId |-> userId, itemTypes |-> itemTypes,
                     groupItems |-> groupItems],
            !.pc = "fetch",
            !.reqs = <<LatestRequest(userId, itemTypes, groupItems)>>]]
    /\ UNCHANGED <<extras, fetched, client>>

\* Emby.nextUp up to the await of getJson.
NextUpCall(t, userId) ==
    /\ Starts(t, "nextUp", "", [userId |-> userId])
    /\ tasks' = [tasks EXCEPT ![t] =
         [Begin(t, "nextUp", "") EXCEPT
            !.arg = [userId |-> userId],
            !.pc = "fetch",
            !.reqs = <<NextUpRequest(userId)>>]]
    /\ UNCHANGED <<extras, fetched, client>>

\* Variant: the list is kept in the collection cache under the method's name,
\* and a kept list is handed back in place of the answer.
ListReturn_Cached(t) ==
    /\ tasks[t].pc = "fetch"
    /\ tasks[t].op \in {"latest", "nextUp"}
    /\ \E resp \in Responses :
         LET op    == tasks[t].op
             items == IF op \in DOMAIN extras THEN extras[op]
                      ELSE PyList(ProcessRecords(resp))
         IN  /\ tasks' = [tasks EXCEPT ![t].pc = "done", ![t].resp = resp,
                                       ![t].ret = items]
             /\ extras' = DictSet(extras, op, items)
    /\ UNCHANGED <<fetched, client, calls>>

\* latest / nextUp after getJson answered: return await self.process(json)
ListReturn(t) ==
    /\ tasks[t].pc = "fetch"
    /\ tasks[t].op \in {"latest", "nextUp"}
    /\ \E resp \in Responses :
         tasks' = [tasks EXCEPT ![t].pc = "done", ![t].resp = resp,
                                ![t].ret = PyList(ProcessRecords(resp))]
    /\ UNCHANGED <<extras, fetched, client, calls>>

\* getJson raised: the exception leaves latest / nextUp.
ListFail(t) ==
    /\ tasks[t].pc = "fetch"
    /\ tasks[t].op \in {"latest", "nextUp"}
    /\ \E e \in {"TransportError", "JSONDecodeError"} :
         tasks' = [tasks EXCEPT ![t].pc = "done", ![t].fault = e,
                                ![t].err = Raised(e, <<>>)]
    /\ UNCHANGED <<extras, fetched, client, calls>>

(* ----------------------------- callers --------------------------------- *)

\* Identifiers callers pass: of records the server holds, and one it does not.
CallerIds == {"a", "b", "nonexistent-id"}

\* Items callers pass to create_playlist and, as lists, to info.
CallerItems == {PyStr(id) : id \in CallerIds} \cup {PyDict(MovieC)}

\* Arguments of info: none, a string, a list.
InfoArgs ==
    {PyNone, PyStr("")} \cup {PyStr(id) : id \in CallerIds}
    \cup {PyList(l) : l \in SeqsUpTo(CallerItems, MaxItems)}

\* The userId callers pass: none (the connector's own user) or a user's id.
CallerUsers == {PyNone, PyStr("u1")}

\* The root aggregate's queries, called one at a time.
QueryNext ==
    \E t \in {Tasks[1]} :
        \/ \E a \in InfoArgs : InfoCall(t, a)
        \/ InfoResolved(t)
        \/ InfoStatus(t)
        \/ \E sm \in SortMaps, strict \in BOOLEAN : SearchCall(t, "x", sm, strict)
        \/ SearchReturn(t)
        \/ SearchFail(t)
        \/ \E songs \in SeqsUpTo(CallerItems, MaxItems) : PlaylistCall(t, "mix", songs)
        \/ PlaylistResolved(t)
        \/ PlaylistResolveFail(t)
        \/ PlaylistPosted(t)
        \/ \E u \in CallerUsers, ty \in {"", "Movie"}, g \in BOOLEAN : LatestCall(t, u, ty, g)
        \/ \E u \in CallerUsers : NextUpCall(t, u)
        \/ ListReturn(t)
        \/ ListFail(t)

\* The cache the queries run beside: empty, or filled by the forced accessors
\* of the first two collections.
QueryInit ==
    /\ used = {KeyOrder[1], KeyOrder[2]}
    /\ episode = NoEpisode
    /\ sched = FALSE
    /\ extras \in {EmptyDict, [k \in used |-> PyList(ProcessRecords(<<SeriesA>>))]}
    /\ fetched = extras
    /\ tasks = [t \in TaskIds |-> Idle]
    /\ calls = 0

QuerySpec == QueryInit /\ [][QueryNext]_vars

(* ------------------------- dual-mode convention ------------------------ *)

\* The method or property a call of `op` on key K goes through.
MethodName(op, K) ==
    IF op = "cached" THEN K ELSE IF op = "forced" THEN K \o "_force" ELSE op

\* Variant: the decorator is missing on update.
Decorated_NotUpdate(name) ==
    name \in ({"info", "search", "latest", "nextUp", "create_playlist"}
              \cup Keys \cup {K \o "_force" : K \in Keys})

\* The `async def`s of Emby that carry @async_func.
Decorated(name) ==
    name \in ({"info", "search", "latest", "nextUp", "update", "create_playlist"}
              \cup Keys \cup {K \o "_force" : K \in Keys})

\* What calling an `async def` hands back: through the wrapper with no loop
\* running, the value (the wrapper runs the coroutine to its end); with a loop
\* running, or without the wrapper, the coroutine object.
AsyncFunc(decorated, running) ==
    IF decorated /\ ~running THEN "value" ELSE "coroutine"

\* A call that hands back the coroutine object: nothing of the body has run.
Invoke(t, op, K, arg) ==
    /\ CanCall(t)
    /\ calls' = calls + 1
    /\ AsyncFunc(Decorated(MethodName(op, K)), sched) = "coroutine"
    /\ tasks' = [tasks EXCEPT ![t] =
         [Idle EXCEPT !.op = op, !.key = K, !.arg = arg,
                      !.pc = "handle", !.mode = "handle"]]
    /\ UNCHANGED <<extras, fetched, client>>

\* When the body of `name` may start: its coroutine object is awaited by a
\* coroutine of the running loop, or the wrapper runs it on the calling
\* thread, which has nothing else in flight.
BodyStarts(t, name) ==
    \/ sched /\ tasks[t].pc = "handle"
    \/ /\ AsyncFunc(Decorated(name), sched) = "value"
       /\ \A u \in TaskIds : ~InFlight(u)

\* One call of every kind, made from a script or from a coroutine.
ModeSearchArg == [query |-> "x", sort_map |-> DefaultSortMap, strict_sort |-> FALSE]

ModeLatestArg == [userId |-> PyNone, itemTypes |-> "", groupItems |-> FALSE]

\* The collection accessors and update run in any slot.
ModeCacheNext ==
    \E t \in TaskIds :
        \/ \E K \in used : Invoke(t, "cached", K, PyNone)
        \/ \E K \in used : Invoke(t, "forced", K, PyNone)
        \/ Invoke(t, "update", "", PyNone)
        \/ \E K \in used : BodyStarts(t, K) /\ CachedCall(t, K)
        \/ \E K \in used : BodyStarts(t, K \o "_force") /\ ForcedCall(t, K)
        \/ BodyStarts(t, "update") /\ Update(t)
        \/ ForceReturn(t)
        \/ ForceFail(t)

\* The queries are made by the first caller.
ModeQueryNext ==
    \E t \in {Tasks[1]} :
        \/ \E a \in {PyNone, PyStr("a")} : Invoke(t, "info", "", a)
        \/ Invoke(t, "search", "", ModeSearchArg)
        \/ Invoke(t, "latest", "", ModeLatestArg)
        \/ Invoke(t, "nextUp", "", [userId |-> PyNone])
        \/ Invoke(t, "create_playlist", "", [name |-> "mix", songs |-> PyList(<<PyStr("a")>>)])
        \/ \E a \in {PyNone, PyStr("a")} : BodyStarts(t, "info") /\ InfoCall(t, a)
        \/ BodyStarts(t, "search") /\ SearchCall(t, "x", DefaultSortMap, FALSE)
        \/ BodyStarts(t, "latest") /\ LatestCall(t, PyNone, "", FALSE)
        \/ BodyStarts(t, "nextUp") /\ NextUpCall(t, PyNone)
        \/ BodyStarts(t, "create_playlist") /\ PlaylistCall(t, "mix", <<PyStr("a")>>)
        \/ InfoResolved(t)
        \/ InfoStatus(t)
        \/ SearchReturn(t) /\ Len(tasks'[t].resp) <= MaxLen
        \/ SearchFail(t)
        \/ ListReturn(t)
        \/ ListFail(t)
        \/ PlaylistResolved(t)
        \/ PlaylistResolveFail(t)
        \/ PlaylistPosted(t)

ModeNext == ModeCacheNext \/ ModeQueryNext

\* A script (no loop) or a coroutine of a running loop, beside an empty cache.
ModeInit ==
    /\ extras = EmptyDict
    /\ tasks = [t \in TaskIds |-> Idle]
    /\ fetched = EmptyDict
    /\ used = {KeyOrder[1]}
    /\ calls = 0
    /\ episode = NoEpisode
    /\ sched \in BOOLEAN

ModeSpec == ModeInit /\ [][ModeNext]_vars

(* ------------------------------- Episode ------------------------------- *)

\* Values assigned to index_number, and relation accesses made, in one run.
MaxIndex == 2
MaxResolves == 2

PyInt(n) == [kind |-> "int", val |-> <<n>>]

\* self.object_dict.get('IndexNumber', 1)
index_number(od) == DictGet(od, "IndexNumber", PyInt(1))

\* return self.index_number
episode_number(od) == index_number(od)

\* self.object_dict.get('SeasonId', 1)
season_id(od) == DictGet(od, "SeasonId", PyInt(1))

\* self.object_dict.get('SeriesId')
series_id(od) == DictGet(od, "SeriesId", PyNone)

\* self.object_dict['IndexNumber'] = value
set_index_number(od, value) == DictSet(od, "IndexNumber", value)

\* Variant: episode_number keeps a field of its own.
set_episode_number_Own(od, value) == DictSet(od, "EpisodeNumber", value)

\* self.index_number = value
set_episode_number(od, value) == set_index_number(od, value)

\* self.object_dict['SeasonId'] = value
set_season_id(od, value) == DictSet(od, "SeasonId", value)

\* The identifier each relation hands to process(); show is series.
RelationId(od, name) ==
    IF name = "season" THEN season_id(od) ELSE series_id(od)

\* self.process(id) called on the entity: the Resolver is invoked with id; it
\* works on what it is handed and leaves the calling entity as it is.
ProcessCall(ep, id) == [ep EXCEPT !.invoked = Append(ep.invoked, id)]

\* Reading a field accessor.
EpisodeRead(name) ==
    /\ episode' = [episode EXCEPT
         !.last = name,
         !.val = CASE name = "index_number"   -> index_number(episode.object_dict)
                   [] name = "episode_number" -> episode_number(episode.object_dict)
                   [] name = "season_id"      -> season_id(episode.object_dict)
                   [] OTHER                   -> series_id(episode.object_dict)]
    /\ UNCHANGED <<extras, tasks, fetched, used, calls, sched>>

\* Assigning through a field accessor.
EpisodeAssign(name, value) ==
    /\ episode' = [episode EXCEPT
         !.last = name \o "=",
         !.val = value,
         !.object_dict =
            CASE name = "index_number"   -> set_index_number(episode.object_dict, value)
              [] name = "episode_number" -> set_episode_number(episode.object_dict, value)
              [] OTHER                   -> set_season_id(episode.object_dict, value)]
    /\ UNCHANGED <<extras, tasks, fetched, used, calls, sched>>

\* Variant: a relation is looked up in the entity's cache and kept there.
EpisodeRelation_Cached(name) ==
    /\ Len(episode.invoked) < MaxResolves
    /\ LET id == RelationId(episode.object_dict, name)
       IN  episode' =
             IF name \in DOMAIN episode.extras
             THEN [episode EXCEPT !.last = name, !.val = episode.extras[name]]
             ELSE [episode EXCEPT !.last = name, !.val = id,
                                  !.invoked = Append(episode.invoked, id),
                                  !.extras = DictSet(episode.extras, name, id)]
    /\ UNCHANGED <<extras, tasks, fetched, used, calls, sched>>

\* season / series / show: return self.process(<id>); val is the identifier
\* the Resolver is invoked with.
EpisodeRelation(name) ==
    /\ Len(episode.invoked) < MaxResolves
    /\ LET id == RelationId(episode.object_dict, name)
       IN  episode' = [ProcessCall(episode, id) EXCEPT !.last = name, !.val = id]
    /\ UNCHANGED <<extras, tasks, fetched, used, calls, sched>>

\* Raw records of episodes: each of IndexNumber, SeasonId, SeriesId may be missing.
EpisodeRecords ==
    { [f \in fields |->
          CASE f = "IndexNumber" -> PyInt(MaxIndex)
            [] f = "SeasonId"    -> PyStr("s1")
            [] f = "SeriesId"    -> PyStr("a")
            [] f = "Type"        -> PyStr("Episode")
            [] OTHER             -> PyStr("e1")]
      : fields \in { {"Id", "Type"} \cup opt
                     : opt \in SUBSET {"IndexNumber", "SeasonId", "SeriesId"} } }

\* An Episode built from a raw record; its own cache is empty or holds
\* something under a relation's name.
EpisodeInit ==
    /\ extras = EmptyDict
    /\ tasks = [t \in TaskIds |-> Idle]
    /\ fetched = EmptyDict
    /\ used = {}
    /\ calls = 0
    /\ sched = FALSE
    /\ \E od \in EpisodeRecords, ex \in {EmptyDict, DictSet(EmptyDict, "season", PyStr("kept"))} :
         episode = [NoEpisode EXCEPT !.object_dict = od, !.extras = ex]

EpisodeNext ==
    \/ \E name \in {"index_number", "episode_number", "season_id", "series_id"} :
          EpisodeRead(name)
    \/ \E name \in {"index_number", "episode_number"}, n \in 1..MaxIndex :
          EpisodeAssign(name, PyInt(n))
    \/ \E id \in {"s1", "s2"} : EpisodeAssign("season_id", PyStr(id))
    \/ \E name \in {"season", "series", "show"} : EpisodeRelation(name)

EpisodeSpec == EpisodeInit /\ [][EpisodeNext]_vars

Next ==
    \E t \in TaskIds :
        \/ \E K \in used : CachedCall(t, K)
        \/ \E K \in used : ForcedCall(t, K)
        \/ ForceReturn(t)
        \/ ForceFail(t)
        \/ Update(t)

Spec == Init /\ [][Next]_vars

(* ------------------------------ properties ----------------------------- *)

\* The step in which slot t starts a call of `op`.
CallStep(t, op) == calls' = calls + 1 /\ CanCall(t) /\ tasks'[t].op = op

\* The step in which the call of `op` in slot t returns a value.
ReturnStep(t, op) ==
    /\ InFlight(t)
    /\ tasks[t].op = op
    /\ tasks'[t].pc = "done"
    /\ tasks'[t].err = NoError

\* A forced fetch of K has completed since the last update.
Fetched(K) == K \in DOMAIN fetched /\ fetched[K].kind = "list"

\* C1 as stated: once a forced fetch of K has completed, whatever sequence it
\* fetched, a cached accessor call for K (no update in between) returns that
\* sequence and sends no request.
C1_CachedAfterForcedAnySequence ==
    [][\A t \in TaskIds, K \in Keys :
        (CallStep(t, "cached") /\ tasks'[t].key = K /\ Fetched(K))
        => /\ tasks'[t].pc = "done"
           /\ tasks'[t].ret = fetched[K]
           /\ tasks'[t].reqs = <<>>]_vars

\* C1 amended: once a forced fetch of K has completed with a non-empty
\* sequence, a cached accessor call for K (no update in between) returns
\* exactly that sequence and sends no request.
C1_CachedAfterForced ==
    [][\A t \in TaskIds, K \in Keys :
        (CallStep(t, "cached") /\ tasks'[t].key = K /\ Fetched(K) /\ fetched[K].val # <<>>)
        => /\ tasks'[t].pc = "done"
           /\ tasks'[t].ret = fetched[K]
           /\ tasks'[t].reqs = <<>>]_vars

C1_Witness ==
    \E t \in TaskIds :
        /\ tasks[t].op = "cached" /\ tasks[t].pc = "done"
        /\ tasks[t].reqs = <<>>
        /\ tasks[t].ret.val # <<>>
        /\ Fetched(tasks[t].key)
        /\ tasks[t].ret = fetched[tasks[t].key]

\* C2: a cached accessor call for K returns the entry and sends nothing exactly
\* when the entry is present and non-empty; otherwise it sends the forced
\* accessor's query, and when it returns the entry of K is what it returned.
C2_CachedAccessor ==
    [][\A t \in TaskIds, K \in Keys :
        /\ (CallStep(t, "cached") /\ tasks'[t].key = K)
           => IF K \in DOMAIN extras /\ extras[K].val # <<>>
              THEN /\ tasks'[t].pc = "done"
                   /\ tasks'[t].ret = extras[K]
                   /\ tasks'[t].reqs = <<>>
                   /\ extras' = extras
              ELSE /\ tasks'[t].pc = "fetch"
                   /\ tasks'[t].reqs = <<ForceRequest(K)>>
        /\ (ReturnStep(t, "cached") /\ tasks[t].key = K)
           => /\ K \in DOMAIN extras'
              /\ extras'[K] = tasks'[t].ret]_vars

C2_Witness ==
    \E t \in TaskIds :
        /\ tasks[t].op = "cached" /\ tasks[t].pc = "done" /\ tasks[t].err = NoError
        /\ tasks[t].reqs = <<ForceRequest(tasks[t].key)>>
        /\ tasks[t].prev = PyList(<<>>)
        /\ tasks[t].ret.val # <<>>
        /\ tasks[t].key \in DOMAIN extras
        /\ extras[tasks[t].key] = tasks[t].ret

\* C3: a forced accessor call for K sends its query whether or not K is
\* cached, and when it returns the entry of K is exactly the sequence resolved
\* from the answer, which is also what it returns; no other entry changes.
C3_ForcedAccessor ==
    [][\A t \in TaskIds, K \in Keys :
        /\ (CallStep(t, "forced") /\ tasks'[t].key = K)
           => /\ tasks'[t].pc = "fetch"
              /\ tasks'[t].reqs = <<ForceRequest(K)>>
        /\ (ReturnStep(t, "forced") /\ tasks[t].key = K)
           => /\ K \in DOMAIN extras'
              /\ extras'[K] = PyList(ProcessRecords(tasks'[t].resp))
              /\ tasks'[t].ret = extras'[K]
              /\ \A k \in DOMAIN extras' \ {K} : k \in DOMAIN extras /\ extras'[k] = extras[k]]_vars

C3_Witness ==
    \E t \in TaskIds :
        /\ tasks[t].op = "forced" /\ tasks[t].pc = "done" /\ tasks[t].err = NoError
        /\ tasks[t].prev.kind = "list" /\ tasks[t].prev.val # <<>>
        /\ tasks[t].ret.val # <<>>
        /\ tasks[t].ret # tasks[t].prev
        /\ extras[tasks[t].key] = tasks[t].ret

\* C4: when update completes, every key that was cached before it is cached
\* again, and one fetch was made for each of them.
C4_UpdateReloads ==
    [][\A t \in TaskIds :
        CallStep(t, "update")
        => /\ tasks'[t].pc = "done"
           /\ DOMAIN extras' = DOMAIN extras
           /\ Len(tasks'[t].reqs) = Cardinality(DOMAIN extras)]_vars

C6_UpdateAttemptsEveryKey ==
    [][\A t \in TaskIds :
        CallStep(t, "update")
        => /\ tasks'[t].pc = "done"
           /\ tasks'[t].err = NoError
           /\ tasks'[t].called = DOMAIN extras]_vars

\* C7: info with an identifier, or a list of them, that the transport fails to
\* decode raises a LookupError carrying the caller's argument, and returns
\* nothing.
C7_InfoLookupError ==
    \A t \in TaskIds :
        (tasks[t].op = "info" /\ tasks[t].pc = "done" /\ tasks[t].fault = "JSONDecodeError")
        => /\ tasks[t].err.type = "LookupError"
           /\ \E i \in DOMAIN tasks[t].err.args : tasks[t].err.args[i] = tasks[t].arg
           /\ tasks[t].ret = PyNone

C7_Witness ==
    \E t \in TaskIds :
        /\ tasks[t].op = "info" /\ tasks[t].pc = "done"
        /\ tasks[t].fault = "JSONDecodeError"
        /\ tasks[t].arg = PyStr("nonexistent-id")
        /\ tasks[t].err.type = "LookupError"

Mapped(sm, x) == \E i \in 1..Len(sm) : sm[i][1] = x.type

Priorities(sm) == {sm[i][2] : i \in 1..Len(sm)}

\* The items of mapped type by ascending priority, each priority's items in
\* their original order.
RECURSIVE ByPriority(_, _, _)
ByPriority(sm, items, prios) ==
    IF prios = {} THEN <<>>
    ELSE LET m == CHOOSE p \in prios : \A q \in prios : p <= q
         IN  SelectSeq(items, LAMBDA x : Mapped(sm, x) /\ SortMapGet(sm, x.type, m) = m)
             \o ByPriority(sm, items, prios \ {m})

\* Mapped types first, unmapped ones behind them in their original order.
ClaimedOrder(sm, items) ==
    ByPriority(sm, items, Priorities(sm)) \o SelectSeq(items, LAMBDA x : ~Mapped(sm, x))

\* C8: search returns the hits by ascending priority of their type, hits of
\* unmapped type behind all mapped ones, ties and unmapped hits in their
\* original order.
C8_SearchOrder ==
    \A t \in TaskIds :
        (tasks[t].op = "search" /\ tasks[t].pc = "done" /\ tasks[t].err = NoError)
        => tasks[t].ret.val =
              ClaimedOrder(tasks[t].arg.sort_map, ProcessRecords(tasks[t].resp))

\* The type tags a comma-joined string names.
TagsNamed(str) == {str.val[i] : i \in {j \in DOMAIN str.val : str.val[j] # ","}}

\* C9: the search request carries IncludeItemTypes exactly when strict_sort is
\* set, naming exactly the keys of sort_map; otherwise its only parameter is
\* the search term.
C9_StrictSortFilter ==
    \A t \in TaskIds :
        tasks[t].op = "search"
        => LET a   == tasks[t].arg
               req == tasks[t].reqs[1]
           IN  /\ Len(tasks[t].reqs) = 1
               /\ req.params.searchTerm = PyStr(a.query)
               /\ ("IncludeItemTypes" \in DOMAIN req.params) <=> a.strict_sort
               /\ a.strict_sort =>
                    /\ TagsNamed(req.params.IncludeItemTypes) =
                          {a.sort_map[i][1] : i \in 1..Len(a.sort_map)}
                    /\ Cardinality({j \in DOMAIN req.params.IncludeItemTypes.val :
                                      req.params.IncludeItemTypes.val[j] # ","})
                          = Len(a.sort_map)
               /\ ~a.strict_sort => DOMAIN req.params = {"searchTerm"}

C9_Witness ==
    \E t \in TaskIds :
        /\ tasks[t].op = "search" /\ tasks[t].pc = "done"
        /\ tasks[t].arg.strict_sort
        /\ Len(tasks[t].arg.sort_map) >= 2
        /\ "IncludeItemTypes" \in DOMAIN tasks[t].reqs[1].params

\* The create requests a call has sent.
Posts(t) == SelectSeq(tasks[t].reqs, LAMBDA r : r.method = "POST")

\* The identifier an item stands for.
ItemId(item) ==
    CASE item.kind = "str"  -> item.val[1]
      [] item.kind = "dict" -> item.val[1].Id
      [] OTHER              -> item.val[1].id

\* C10: create_playlist sends at most one create request, none while the items
\* are being resolved and none if an item does not resolve; a call that
\* returns has sent exactly one and returns nothing; the request carries the
\* name and, unless no items were given, the items' identifiers joined in
\* input order.
C10_CreatePlaylist ==
    \A t \in TaskIds :
        tasks[t].op = "create_playlist"
        => LET songs == tasks[t].arg.songs
               posts == Posts(t)
           IN  /\ Len(posts) <= 1
               /\ tasks[t].pc = "resolve" => posts = <<>>
               /\ ~Resolvable(songs) => posts = <<>>
               /\ (tasks[t].pc = "done" /\ tasks[t].err = NoError)
                    => Len(posts) = 1 /\ tasks[t].ret = PyNone
               /\ posts # <<>> =>
                    /\ posts[1].data.Name = PyStr(tasks[t].arg.name)
                    /\ IF songs.val = <<>>
                       THEN DOMAIN posts[1].data = {"Name"}
                       ELSE posts[1].data.Ids.val =
                              Join(",", [i \in 1..Len(songs.val) |-> ItemId(songs.val[i])])

C10_Witness ==
    \E t \in TaskIds :
        /\ tasks[t].op = "create_playlist" /\ tasks[t].pc = "done"
        /\ tasks[t].err = NoError
        /\ Len(tasks[t].arg.songs.val) = 2
        /\ ItemId(tasks[t].arg.songs.val[1]) # ItemId(tasks[t].arg.songs.val[2])
        /\ Len(Posts(t)) = 1

\* The query methods of the root.
QueryOps == {"info", "search", "latest", "nextUp", "create_playlist"}

\* info handed a list that holds raw records only: nothing to fetch.
RecordsOnly(task) ==
    /\ task.op = "info"
    /\ task.arg.kind = "list"
    /\ \A i \in 1..Len(task.arg.val) : task.arg.val[i].kind # "str"

\* What the call in `task` hands back when its own requests were answered
\* with task.resp; `status` tells whether info asked for the system status.
OwnAnswer(task, status) ==
    CASE task.op \in {"latest", "nextUp"} -> PyList(ProcessRecords(task.resp))
      [] task.op = "search" ->
            PyList(SortedItems(task.arg.sort_map, ProcessRecords(task.resp)))
      [] task.op = "info" ->
            IF status THEN SystemStatus ELSE ProcessValue(task.arg)
      [] OTHER -> PyNone

\* C11: latest, nextUp, search, info and create_playlist do no caching: every
\* step of such a call leaves the collection cache as it is, and a call that
\* returns has sent requests of its own (info handed raw records only has
\* nothing to fetch) and hands back what those requests were answered with,
\* whatever the cache holds.
C11_QueriesDoNoCaching ==
    [][\A t \in TaskIds :
          (tasks'[t].op \in QueryOps /\ tasks'[t] # tasks[t]) =>
             /\ extras' = extras
             /\ (tasks'[t].pc = "done" /\ tasks'[t].err = NoError) =>
                   /\ tasks'[t].reqs # <<>> \/ RecordsOnly(tasks'[t])
                   /\ tasks'[t].ret = OwnAnswer(tasks'[t], tasks[t].pc = "status")]_vars

\* latest returned the server's answer while the cache holds another list.
C11_Witness ==
    /\ tasks[Tasks[1]].op = "latest"
    /\ tasks[Tasks[1]].pc = "done"
    /\ tasks[Tasks[1]].reqs # <<>>
    /\ tasks[Tasks[1]].ret = PyList(ProcessRecords(<<MovieB>>))
    /\ KeyOrder[1] \in DOMAIN extras
    /\ extras[KeyOrder[1]] = PyList(ProcessRecords(<<SeriesA>>))

\* The step in which slot t is handed a new call, whatever comes of it.
InvokeStep(t) == calls' = calls + 1 /\ tasks'[t] # tasks[t]

\* C12: every asynchronous operation of the root follows the dual-mode
\* convention.  Called with no loop running, its body starts with the call
\* (no coroutine object is handed out) and nothing else is called before it
\* is done; called from inside a running loop, the call hands out a coroutine
\* object, sends no request and leaves the cache as it is, and the slot stays
\* as it is until that object is awaited.
C12_DualMode ==
    [][\A t \in TaskIds :
          /\ (InvokeStep(t) /\ ~sched) =>
                /\ tasks'[t].pc # "handle"
                /\ tasks'[t].mode = "called"
          /\ (~sched /\ InFlight(t)) => calls' = calls
          /\ (InvokeStep(t) /\ sched) =>
                /\ tasks'[t].pc = "handle"
                /\ tasks'[t].reqs = <<>>
                /\ tasks'[t].ret = PyNone
                /\ extras' = extras
          /\ (tasks[t].pc = "handle" /\ tasks'[t].pc = "handle") =>
                tasks'[t] = tasks[t]
          /\ (tasks[t].pc = "handle" /\ tasks'[t].pc # "handle") =>
                /\ tasks'[t].mode = "awaited"
                /\ tasks'[t].op = tasks[t].op
                /\ tasks'[t].key = tasks[t].key]_vars

\* Inside a running loop: update was called and its coroutine object not yet
\* awaited, the cache still filled; a forced accessor started from its
\* coroutine object has stored its list.
C12_Witness ==
    /\ sched
    /\ \E t, u \in TaskIds :
         /\ tasks[t].op = "update"
         /\ tasks[t].pc = "handle"
         /\ tasks[u].op = "forced"
         /\ tasks[u].mode = "awaited"
         /\ tasks[u].pc = "done"
         /\ tasks[u].key \in DOMAIN extras
         /\ extras[tasks[u].key] = tasks[u].ret

\* The step in which the call of `op` in slot t ends with an exception.
RaiseStep(t, op) ==
    /\ InFlight(t)
    /\ tasks[t].op = op
    /\ tasks'[t].pc = "done"
    /\ tasks'[t].err # NoError

\* C13: when the fetch or the resolution inside the forced accessor of K
\* fails, the caller gets that error and no step of the call has changed the
\* cache: neither the step that sends the query nor the step in which the
\* exception leaves, so an entry K has before the call is still there.  The
\* same holds when the forced accessor runs for a cached accessor that missed.
C13_ForcedFailureKeepsCache ==
    [][\A t \in TaskIds, op \in {"cached", "forced"} :
          /\ CallStep(t, op) => extras' = extras
          /\ RaiseStep(t, op) =>
                /\ extras' = extras
                /\ tasks'[t].err = Raised(tasks'[t].fault, <<>>)
                /\ tasks'[t].ret = PyNone]_vars

\* A forced accessor failed while the cache holds a non-empty entry for its key.
C13_Witness ==
    \E t \in TaskIds :
        /\ tasks[t].op = "forced"
        /\ tasks[t].pc = "done"
        /\ tasks[t].err # NoError
        /\ tasks[t].key \in DOMAIN extras
        /\ extras[tasks[t].key].val # <<>>

\* The accessor call in slot t went to the server and came back with a list.
FetchDone(t) ==
    /\ tasks[t].op \in {"cached", "forced"}
    /\ tasks[t].pc = "done"
    /\ tasks[t].err = NoError
    /\ tasks[t].reqs # <<>>

\* Both slots hold the first two calls of the run: the second one started
\* while the first was in flight, and both fetches have come back.
BothFetched ==
    /\ calls = 2
    /\ FetchDone(Tasks[1])
    /\ FetchDone(Tasks[2])
    /\ tasks[Tasks[1]].key # tasks[Tasks[2]].key

\* C14: an accessor of K writes the entry K only: the step in which its fetch
\* comes back sets entry K to the list it returns and leaves every other
\* entry, and the other caller's slot, as they are.  So when the fetches of
\* two callers for two different keys were in flight together and both have
\* completed, in whichever order, each key holds the list its own fetch
\* returned.
C14_DistinctKeysIndependent ==
    /\ [](BothFetched =>
            \A t \in TaskIds :
                /\ tasks[t].key \in DOMAIN extras
                /\ extras[tasks[t].key] = tasks[t].ret
                /\ tasks[t].ret = PyList(ProcessRecords(tasks[t].resp)))
    /\ [][\A t \in TaskIds, op \in {"cached", "forced"} :
            (ReturnStep(t, op) /\ tasks[t].pc = "fetch") =>
                /\ extras'[tasks[t].key] = tasks'[t].ret
                /\ DOMAIN extras' = DOMAIN extras \cup {tasks[t].key}
                /\ \A k \in DOMAIN extras \ {tasks[t].key} : extras'[k] = extras[k]
                /\ \A u \in TaskIds \ {t} : tasks'[u] = tasks[u]]_vars

\* Two fetches for different keys completed with different non-empty lists.
C14_Witness ==
    /\ BothFetched
    /\ tasks[Tasks[1]].ret.val # <<>>
    /\ tasks[Tasks[2]].ret.val # <<>>
    /\ tasks[Tasks[1]].ret # tasks[Tasks[2]].ret

\* C15: whatever the interleaving of accessors on one key K, the entry of K
\* is absent or is the whole list of the forced fetch of K that completed
\* last, as one of the server's answers resolved, never parts of two; and
\* every accessor that fetched hands back the list of its own fetch.
C15_SameKeyWholeResult ==
    /\ \A K \in DOMAIN extras :
          /\ Fetched(K)
          /\ extras[K] = fetched[K]
          /\ \E resp \in Responses : extras[K] = PyList(ProcessRecords(resp))
    /\ \A t \in TaskIds :
          FetchDone(t) => tasks[t].ret = PyList(ProcessRecords(tasks[t].resp))

\* Two fetches of one key were in flight together and came back with
\* different lists; the entry is the list of one of them.
C15_Witness ==
    /\ calls = 2
    /\ FetchDone(Tasks[1])
    /\ FetchDone(Tasks[2])
    /\ tasks[Tasks[1]].key = tasks[Tasks[2]].key
    /\ tasks[Tasks[1]].ret # tasks[Tasks[2]].ret
    /\ tasks[Tasks[1]].ret.val # <<>>
    /\ extras[tasks[Tasks[1]].key] = tasks[Tasks[1]].ret

\* The step in which the fetch of the accessor call in slot t comes back.
FetchReturnStep(t) ==
    /\ tasks[t].pc = "fetch"
    /\ tasks[t].op \in {"cached", "forced"}
    /\ tasks'[t].pc = "done"
    /\ tasks'[t].err = NoError

\* C16 as stated: a forced fetch issued before update and completing after
\* it does not put its result into the cache.
C16_StaleFetchDiscarded ==
    [][\A t \in TaskIds :
          (FetchReturnStep(t) /\ tasks[t].overtaken) => extras' = extras]_vars

\* C16 as the code has it: update cancels nothing.  An entry that is absent
\* comes into the cache only in the step in which a forced fetch of that key
\* comes back, and a forced fetch that was waiting for the server when update
\* ran stores its list like any other.
C16_UpdateCancelsNothing ==
    [][/\ \A K \in Keys :
            (K \notin DOMAIN extras /\ K \in DOMAIN extras') =>
                \E t \in TaskIds :
                    /\ FetchReturnStep(t)
                    /\ tasks[t].key = K
                    /\ extras'[K] = tasks'[t].ret
       /\ \A t \in TaskIds :
            (FetchReturnStep(t) /\ tasks[t].overtaken) =>
                /\ tasks[t].key \in DOMAIN extras'
                /\ extras'[tasks[t].key] = tasks'[t].ret]_vars

\* update ran while a forced fetch was waiting, and the list of that fetch is
\* now the entry of its key.
C16_Witness ==
    \E t, u \in TaskIds :
        /\ tasks[u].op = "update"
        /\ tasks[u].pc = "done"
        /\ FetchDone(t)
        /\ tasks[t].overtaken
        /\ tasks[t].ret.val # <<>>
        /\ tasks[t].key \in DOMAIN extras
        /\ extras[tasks[t].key] = tasks[t].ret

\* The call asked the connector for the system status.
AskedStatus(task) ==
    \E i \in DOMAIN task.reqs : task.reqs[i].path = StatusRequest.path

\* C17: info asks for the system status, and leaves the Resolver alone,
\* exactly when it is given no identifier; given any argument, the empty
\* string and the empty list included, it hands the argument to the Resolver
\* and does not ask for the system status.
C17_InfoDelegation ==
    \A t \in TaskIds :
        tasks[t].op = "info" =>
            /\ AskedStatus(tasks[t]) <=> tasks[t].arg.kind = "None"
            /\ tasks[t].arg.kind # "None" =>
                  /\ tasks[t].pc \in {"resolve", "done"}
                  /\ tasks[t].reqs = ProcessFetches(tasks[t].arg)

\* C18: every access of season, series or show of an Episode invokes the
\* Resolver once more, with the identifier the raw record gives for that
\* relation (the accessor's default when the record has none), and leaves the
\* entity's cache and its raw record as they are; so two accesses in a row
\* make two invocations.
C18_RelationsResolveEveryAccess ==
    [][(episode'.last \in {"season", "series", "show"}) =>
          /\ episode'.invoked =
                Append(episode.invoked, RelationId(episode.object_dict, episode'.last))
          /\ episode'.extras = episode.extras
          /\ episode'.object_dict = episode.object_dict]_vars

\* season was accessed twice in a row on an Episode whose cache holds
\* something under "season": the Resolver was invoked twice with the season's id.
C18_Witness ==
    /\ episode.last = "season"
    /\ Len(episode.invoked) = 2
    /\ episode.invoked[1] = PyStr("s1")
    /\ episode.invoked[2] = PyStr("s1")
    /\ "season" \in DOMAIN episode.extras

\* C19: index_number and episode_number read and write the raw record's
\* IndexNumber: both always read the same value, 1 when the record has no
\* IndexNumber; an assignment through either makes both read the assigned
\* value, sets the record's IndexNumber to it and leaves every other field of
\* the record as it is; and nothing but such an assignment changes what they
\* read.
C19_IndexNumberAccessors ==
    [][LET od    == episode.object_dict
           od2   == episode'.object_dict
           write == episode'.last \in {"index_number=", "episode_number="}
       IN  /\ index_number(od) = episode_number(od)
           /\ index_number(od2) = episode_number(od2)
           /\ "IndexNumber" \notin DOMAIN od =>
                 index_number(od) = PyInt(1) /\ episode_number(od) = PyInt(1)
           /\ write =>
                 /\ index_number(od2) = episode'.val
                 /\ episode_number(od2) = episode'.val
                 /\ "IndexNumber" \in DOMAIN od2
                 /\ od2["IndexNumber"] = episode'.val
                 /\ DOMAIN od2 = DOMAIN od \cup {"IndexNumber"}
                 /\ \A f \in DOMAIN od \ {"IndexNumber"} : od2[f] = od[f]
           /\ ~write => index_number(od2) = index_number(od)
           /\ episode'.last \in {"index_number", "episode_number"} =>
                 episode'.val = index_number(od)]_vars

\* 1 was assigned (no record comes with IndexNumber 1) and then read through
\* index_number; SeasonId is still what the record came with.
C19_Witness ==
    /\ episode.last = "index_number"
    /\ episode.val = PyInt(1)
    /\ "IndexNumber" \in DOMAIN episode.object_dict
    /\ episode.object_dict["IndexNumber"] = PyInt(1)
    /\ "SeasonId" \in DOMAIN episode.object_dict
    /\ episode.object_dict["SeasonId"] = PyStr("s1")
    /\ Len(episode.invoked) = 0

====
